---- MODULE Spec2Model ----
(***************************************************************************)
(* DataView over a detachable ArrayBuffer (lib/VM/JSLib/DataView.cpp).     *)
(*                                                                         *)
(* One ArrayBuffer, up to MaxViews DataViews over it.  Every native        *)
(* handler is one action.  The argument coercions a handler performs       *)
(* (toIndex, toNumber_RJS) can run arbitrary script; that script is an     *)
(* input of the action: each argument carries the effect its coercion has *)
(* on the buffer (nothing, a detach, a write through another alias).       *)
(* The handler is evaluated step by step over the buffer as it is after    *)
(* each coercion, in the order of the source.                              *)
(*                                                                         *)
(* Spec is the DataView with every handler and every script effect;        *)
(* SpecCodec is the same handlers called with the numbers that exercise    *)
(* the numeric codec.  SpecUTF8 and SpecASCII are the UTF-16 to UTF-8      *)
(* transcoders and isAllASCII of hermes/Support/UTF8.h, called as          *)
(* unittests/Support/UnicodeTest.cpp calls them; there the variable last   *)
(* holds the input and the result of the call.                             *)
(***************************************************************************)
EXTENDS Integers, Sequences, FiniteSets, TLC

VARIABLES buf, views, stores, last

vars == <<buf, views, stores, last>>

(* ------------------------------- bounds -------------------------------- *)

\* Size in bytes of the ArrayBuffer the views are built over.
BufLen == 8

\* How many DataViews are constructed.
MaxViews == 2

\* How many state-changing calls a behaviour makes: views constructed plus
\* set<T> stores done (calls that fail, reads and detaches are not counted).
MaxOps == 2

(* ------------------------------- types --------------------------------- *)

\* TYPED_ARRAY(name, type) with TYPED_ARRAY_NO_CLAMP: the registered
\* get<name>/set<name> methods and sizeof(type).
TypedArrays ==
    { [name |-> "Int8",    size |-> 1, kind |-> "int"],
      [name |-> "Uint8",   size |-> 1, kind |-> "uint"],
      [name |-> "Int16",   size |-> 2, kind |-> "int"],
      [name |-> "Uint16",  size |-> 2, kind |-> "uint"],
      [name |-> "Int32",   size |-> 4, kind |-> "int"],
      [name |-> "Uint32",  size |-> 4, kind |-> "uint"],
      [name |-> "Float32", size |-> 4, kind |-> "float"],
      [name |-> "Float64", size |-> 8, kind |-> "float"] }

sizeof(T) == T.size

(* --------------------------- script effects ---------------------------- *)

\* What the script run by a coercion does to the buffer.
Effects == {"none", "detach", "write"}

\* JSArrayBuffer::detach: the storage is released, the size becomes 0 and
\* the buffer is no longer attached.
detach(b) == [attached |-> FALSE, size |-> 0, data |-> <<>>]

\* The script a coercion runs, applied to the buffer; a writing script
\* stores the byte 0xAA at index 0 through another alias of the buffer.
RunEffect(b, e) ==
    CASE e = "detach" -> detach(b)
      [] e = "write"  -> IF b.attached /\ b.size > 0
                            THEN [b EXCEPT !.data[1] = 170]
                            ELSE b
      [] OTHER        -> b

(* ------------------------------ arguments ------------------------------ *)

\* The numbers index arguments are called with: a negative one, 0, each
\* sizeof(T), the buffer's size, and beyond its size.
IndexVals == {-1, 0} \cup {sizeof(T) : T \in TypedArrays} \cup {BufLen, BufLen + 1}

\* An argument: a number n (already an integer), a number above 2^53 - 1
\* ("huge"), a value whose coercion throws ("throw"), or undefined; eff is
\* what the script run by its coercion does.
IntArgs == { [k |-> "int", n |-> i, eff |-> "none"] : i \in IndexVals }
               \cup { [k |-> "int", n |-> 0, eff |-> e] : e \in {"detach", "write"} }
               \cup { [k |-> "int", n |-> BufLen, eff |-> "detach"] }
BadArgs == { [k |-> "huge", n |-> 0, eff |-> "none"],
             [k |-> "throw", n |-> 0, eff |-> "none"] }
Undefined == [k |-> "undef", n |-> 0, eff |-> "none"]

\* Offsets are passed explicitly; the length of a view may be left undefined.
IndexArgs == IntArgs \cup BadArgs
LengthArgs == IndexArgs \cup {Undefined}

\* toIndex(runtime, arg): runs the coercion (and its script), then accepts
\* an integer in 0 .. 2^53 - 1; undefined is index 0.
toIndex(b, a) ==
    LET b1 == RunEffect(b, a.eff) IN
    CASE a.k = "throw" -> [ok |-> FALSE, err |-> "Thrown", n |-> 0, buf |-> b1]
      [] a.k = "huge"  -> [ok |-> FALSE, err |-> "IndexRangeError", n |-> 0, buf |-> b1]
      [] a.k = "undef" -> [ok |-> TRUE, err |-> "", n |-> 0, buf |-> b1]
      [] OTHER         -> IF a.n < 0
                             THEN [ok |-> FALSE, err |-> "IndexRangeError", n |-> 0, buf |-> b1]
                             ELSE [ok |-> TRUE, err |-> "", n |-> a.n, buf |-> b1]

\* A JavaScript number that is an integer, hi * 2^16 + lo with lo in
\* 0 .. 65535 (hi is negative for a negative number), so that every value of
\* Uint32 and Int32 is written with small integers.
Number(n) == [hi |-> n \div 65536, lo |-> n % 65536]

\* The values set<T> is called with, and the script their coercion runs.
SetValues == {258}

ValueArgs == { [k |-> "num", n |-> Number(v), eff |-> e] :
                  v \in SetValues, e \in {"none", "detach"} }
                 \cup { [k |-> "throw", n |-> 0, eff |-> "none"] }

\* toNumber_RJS(runtime, arg): runs the coercion (and its script).
toNumber_RJS(b, a) ==
    LET b1 == RunEffect(b, a.eff) IN
    IF a.k = "throw"
       THEN [ok |-> FALSE, err |-> "Thrown", n |-> Number(0), buf |-> b1]
       ELSE [ok |-> TRUE, err |-> "", n |-> a.n, buf |-> b1]

\* The littleEndian argument: a boolean, or undefined when it is absent.
BoolArgs == {"false", "true"}
FlagArgs == BoolArgs \cup {"undefined"}

\* toBoolean(args.getArg(i)): undefined is false.
toBoolean(x) == x = "true"

(* ------------------------------- codec --------------------------------- *)

Reverse(s) == [i \in 1 .. Len(s) |-> s[Len(s) + 1 - i]]

RECURSIVE Pow2(_)
Pow2(n) == IF n = 0 THEN 1 ELSE 2 * Pow2(n - 1)

\* floor(log2 v) for v >= 1.
RECURSIVE Log2(_)
Log2(v) == IF v < 2 THEN 0 ELSE 1 + Log2(v \div 2)

Abs(v) == IF v < 0 THEN -v ELSE v

\* The two's-complement pattern of the number v in n <= 4 bytes, least
\* significant first: v modulo 2^32, cut to n bytes.
IntBytes(v, n) ==
    SubSeq(<<v.lo % 256, v.lo \div 256, v.hi % 256, (v.hi \div 256) % 256>>, 1, n)

\* A number of small magnitude as an integer.
AsInt(v) == v.hi * 65536 + v.lo

\* The IEEE-754 single pattern of an integer |v| < 2^24, least significant
\* byte first.
Float32Bytes(v) ==
    IF v = 0 THEN <<0, 0, 0, 0>>
    ELSE LET a == Abs(v)
             e == Log2(a)
             E == e + 127
             m == (a - Pow2(e)) * Pow2(23 - e)
             s == IF v < 0 THEN 128 ELSE 0
         IN <<m % 256, (m \div 256) % 256,
              (E % 2) * 128 + (m \div 65536), s + (E \div 2)>>

\* The IEEE-754 double pattern of an integer |v| < 2^20, least significant
\* byte first.
Float64Bytes(v) ==
    IF v = 0 THEN <<0, 0, 0, 0, 0, 0, 0, 0>>
    ELSE LET a == Abs(v)
             e == Log2(a)
             E == e + 1023
             m == (a - Pow2(e)) * Pow2(20 - e)
             s == IF v < 0 THEN 128 ELSE 0
         IN <<0, 0, 0, 0, m % 256, (m \div 256) % 256,
              (E % 16) * 16 + (m \div 65536), s + (E \div 16)>>

\* The least and the greatest value of an integer type.
MinOf(T) ==
    IF T.kind = "uint" THEN Number(0)
    ELSE CASE sizeof(T) = 1 -> Number(-128)
           [] sizeof(T) = 2 -> Number(-32768)
           [] OTHER         -> [hi |-> -32768, lo |-> 0]
MaxOf(T) ==
    IF T.kind = "uint"
       THEN CASE sizeof(T) = 1 -> Number(255)
              [] sizeof(T) = 2 -> Number(65535)
              [] OTHER         -> [hi |-> 65535, lo |-> 65535]
       ELSE CASE sizeof(T) = 1 -> Number(127)
              [] sizeof(T) = 2 -> Number(32767)
              [] OTHER         -> [hi |-> 32767, lo |-> 65535]

\* v <= w for numbers.
NumLeq(v, w) == v.hi < w.hi \/ (v.hi = w.hi /\ v.lo <= w.lo)

\* Mutation: the conversion of a clamped array kind (Uint8Clamped's
\* saturation), applied to every integer type.
toDestType_Clamped(T, v) ==
    CASE T.name = "Float32" -> Float32Bytes(AsInt(v))
      [] T.name = "Float64" -> Float64Bytes(AsInt(v))
      [] OTHER              ->
            IntBytes(IF NumLeq(v, MinOf(T)) THEN MinOf(T)
                     ELSE IF NumLeq(MaxOf(T), v) THEN MaxOf(T)
                     ELSE v, sizeof(T))

\* JSTypedArray<T, C>::toDestType with C one of the kinds registered under
\* TYPED_ARRAY_NO_CLAMP: the number as a T, as T's bit pattern (least
\* significant byte first).
toDestType(T, v) ==
    CASE T.name = "Float32" -> Float32Bytes(AsInt(v))
      [] T.name = "Float64" -> Float64Bytes(AsInt(v))
      [] OTHER              -> IntBytes(v, sizeof(T))

\* Mutation: the bytes of a signed type read as an unsigned value.
SafeNumericEncoder_ZeroExtends(T, pattern) ==
    IF T.kind = "float" THEN [bits |-> pattern]
    ELSE CASE sizeof(T) = 1 -> Number(pattern[1])
           [] sizeof(T) = 2 -> Number(pattern[1] + 256 * pattern[2])
           [] OTHER         -> [hi |-> pattern[3] + 256 * pattern[4],
                                lo |-> pattern[1] + 256 * pattern[2]]

\* SafeNumericEncoder<T>::encode(self->get<T>(...)): the T with the given
\* bit pattern (least significant byte first) as a JavaScript number: an
\* unsigned type is zero-extended, a signed type sign-extended; a float is
\* kept as its IEEE-754 bits.
SafeNumericEncoder(T, pattern) ==
    IF T.kind = "float" THEN [bits |-> pattern]
    ELSE LET signed == T.kind = "int" IN
         CASE sizeof(T) = 1 ->
                 Number(IF signed /\ pattern[1] >= 128
                           THEN pattern[1] - 256 ELSE pattern[1])
           [] sizeof(T) = 2 ->
                 LET u == pattern[1] + 256 * pattern[2]
                 IN Number(IF signed /\ u >= 32768 THEN u - 65536 ELSE u)
           [] OTHER ->
                 LET u == pattern[3] + 256 * pattern[4]
                 IN [hi |-> IF signed /\ u >= 32768 THEN u - 65536 ELSE u,
                     lo |-> pattern[1] + 256 * pattern[2]]

\* The bytes of a T in buffer order: as stored on a little-endian request,
\* byte-swapped otherwise.
InBufferOrder(pattern, littleEndian) ==
    IF littleEndian THEN pattern ELSE Reverse(pattern)

\* A byte of the storage; outside the storage (a released or shorter
\* block) the byte read is indeterminate, written -1.
ByteAt(b, i) == IF i \in DOMAIN b.data THEN b.data[i] ELSE -1

\* JSDataView::get<T>: sizeof(T) bytes at offset_ + byteOffset, as T's bit
\* pattern (least significant byte first).
viewGet(b, v, T, byteOffset, littleEndian) ==
    InBufferOrder([i \in 1 .. sizeof(T) |-> ByteAt(b, v.byteOffset + byteOffset + i)],
                  littleEndian)

\* JSDataView::set<T>: stores sizeof(T) bytes at offset_ + byteOffset.
viewSet(b, v, T, byteOffset, pattern, littleEndian) ==
    LET bytes == InBufferOrder(pattern, littleEndian)
        base  == v.byteOffset + byteOffset
    IN [b EXCEPT !.data = [i \in 1 .. Len(b.data) |->
                              IF i > base /\ i <= base + sizeof(T)
                                 THEN bytes[i - base]
                                 ELSE b.data[i]]]

\* The absolute buffer indices (0-based) get<T>/set<T> touch.
Touched(v, T, byteOffset) ==
    (v.byteOffset + byteOffset) .. (v.byteOffset + byteOffset + sizeof(T) - 1)

(* ------------------------------- state --------------------------------- *)

\* The record of the last native call: what it was called with (args, in
\* argument order, and the littleEndian argument, flag), the steps it ran
\* (trace), the script effects of the coercions it ran (effs), the index it
\* validated (off), the buffer bytes it touched and whether the buffer was
\* attached when it touched them (live), and how it ended.
NoCall ==
    [op |-> "none", self |-> 0, type |-> "", flag |-> "undefined", le |-> FALSE,
     args |-> <<>>,
     status |-> "ok", trace |-> <<>>, effs |-> <<>>, off |-> 0, len |-> 0,
     touched |-> {}, live |-> TRUE, cached |-> 0, bufSize |-> 0,
     result |-> <<>>]

Init ==
    /\ buf = [attached |-> TRUE, size |-> BufLen, data |-> [i \in 1 .. BufLen |-> 0]]
    /\ views = <<>>
    /\ stores = 0
    /\ last = NoCall

\* args.dyncastThis<JSDataView>: receiver 0 is an object that is no
\* DataView, receiver i >= 1 is the i-th view.
isDataView(self) == self \in 1 .. Len(views)

Fail(call, b, status, trace) ==
    [buf |-> b, last |-> [call EXCEPT !.status = status, !.trace = trace]]

(* ------------------------- DataView.prototype -------------------------- *)

\* Mutation: an accessor that tests the buffer, as get<T> does.
AccessorStatus_ChecksAttached(self, b) ==
    IF ~isDataView(self) THEN "ReceiverTypeError"
    ELSE IF ~b.attached THEN "DetachedBufferError"
    ELSE "ok"

\* if (!self) return runtime->raiseTypeError(...) in the three accessors:
\* the receiver is the only thing they test.
AccessorStatus(self, b) ==
    IF ~isDataView(self) THEN "ReceiverTypeError" ELSE "ok"

\* An accessor's outcome: the record of the call, result being the value
\* returned.
AccessorOutcome(op, self, value) ==
    LET status == AccessorStatus(self, buf) IN
    [NoCall EXCEPT !.op = op, !.self = self, !.status = status,
                   !.trace = IF status = "ok" THEN <<"receiver", "read">>
                                              ELSE <<"receiver">>,
                   !.result = IF status = "ok" THEN <<value>> ELSE <<>>]

\* dataViewPrototypeBuffer: self->getBuffer(runtime), the one ArrayBuffer.
dataViewPrototypeBuffer(self) ==
    /\ last' = AccessorOutcome("buffer", self, "ArrayBuffer")
    /\ UNCHANGED <<buf, views, stores>>

\* dataViewPrototypeByteLength: self->byteLength().
dataViewPrototypeByteLength(self) ==
    /\ last' = AccessorOutcome("byteLength", self,
                               IF isDataView(self) THEN views[self].byteLength ELSE 0)
    /\ UNCHANGED <<buf, views, stores>>

\* dataViewPrototypeByteOffset: self->byteOffset().
dataViewPrototypeByteOffset(self) ==
    /\ last' = AccessorOutcome("byteOffset", self,
                               IF isDataView(self) THEN views[self].byteOffset ELSE 0)
    /\ UNCHANGED <<buf, views, stores>>

\* Mutation: get<T> without its attached check.
GetAttachedCheck_Omitted(b0, b1) == TRUE

\* if (!self->attached(runtime)) in get<T>: the flag of the buffer as it is
\* after the offset coercion (b1), not as it was on entry (b0).
GetAttachedCheck(b0, b1) == b1.attached

\* Mutation: set<T> takes an absent littleEndian argument for true.
SetLittleEndian_AbsentIsLittle(leArg) == leArg # "false"

\* auto littleEndian = toBoolean(args.getArg(1)) in get<T>.
GetLittleEndian(leArg) == toBoolean(leArg)

\* auto littleEndian = toBoolean(args.getArg(2)) in set<T>.
SetLittleEndian(leArg) == toBoolean(leArg)

\* Mutation: the bounds check off by one.
OutOfBounds_OffByOne(v, T, byteOffset) == byteOffset + sizeof(T) >= v.byteLength

\* Mutation: the bounds check forgets the width of T.
OutOfBounds_IgnoresSize(v, T, byteOffset) == byteOffset > v.byteLength

\* byteOffset + sizeof(T) > self->byteLength()
OutOfBounds(v, T, byteOffset) == byteOffset + sizeof(T) > v.byteLength

\* Mutation: the bounds check made before the attached check.
AccessError_BoundsFirst(attached, outOfBounds) ==
    IF outOfBounds THEN "OutOfBoundsError"
    ELSE IF ~attached THEN "DetachedBufferError"
    ELSE "ok"

\* The two checks before the memory access, in the order of the source: the
\* attached check, then the bounds check.
AccessError(attached, outOfBounds) ==
    IF ~attached THEN "DetachedBufferError"
    ELSE IF outOfBounds THEN "OutOfBoundsError"
    ELSE "ok"

\* The steps a call has run when it ends with the given status of the two
\* checks.
CheckSteps(status) ==
    IF status = "DetachedBufferError" THEN <<"attached">> ELSE <<"attached", "bounds">>

\* dataViewPrototypeGet<T>: the call's outcome, as the next buffer and the
\* record of the call.
GetOutcome(self, T, offArg, leArg) ==
    LET littleEndian == GetLittleEndian(leArg)
        call == [NoCall EXCEPT !.op = "get", !.self = self, !.type = T.name,
                               !.flag = leArg, !.le = littleEndian,
                               !.args = <<offArg>>]
    IN
    IF ~isDataView(self)
       THEN Fail(call, buf, "ReceiverTypeError", <<"receiver">>)
    ELSE
    LET v   == views[self]
        res == toIndex(buf, offArg)
        b1  == res.buf
        c1  == [call EXCEPT !.effs = <<offArg.eff>>]
    IN
    IF ~res.ok
       THEN Fail(c1, b1, res.err, <<"receiver", "toIndex">>)
    ELSE
    LET status == AccessError(GetAttachedCheck(buf, b1), OutOfBounds(v, T, res.n))
        c2     == [c1 EXCEPT !.off = res.n]
    IN
    IF status # "ok"
       THEN Fail(c2, b1, status, <<"receiver", "toIndex">> \o CheckSteps(status))
    ELSE [buf |-> b1,
          last |-> [c2 EXCEPT !.status = "ok",
                              !.trace = <<"receiver", "toIndex", "attached", "bounds", "read">>,
                              !.touched = Touched(v, T, res.n),
                              !.live = b1.attached,
                              !.bufSize = b1.size,
                              !.result = SafeNumericEncoder(
                                             T, viewGet(b1, v, T, res.n, littleEndian))]]

dataViewPrototypeGet(self, T, offArg, leArg) ==
    LET out == GetOutcome(self, T, offArg, leArg) IN
    /\ buf' = out.buf
    /\ last' = out.last
    /\ UNCHANGED <<views, stores>>

\* Mutation: set<T> tests the buffer before it coerces the value, and does
\* not coerce the value of a call that is going to fail.
SetCoerceValue_AfterAttachedCheck(b1, valArg) ==
    IF b1.attached THEN toNumber_RJS(b1, valArg)
    ELSE [ok |-> TRUE, err |-> "", n |-> Number(0), buf |-> b1]

\* res = toNumber_RJS(runtime, args.getArgHandle(runtime, 1)) in set<T>: run
\* on the buffer as the offset coercion left it, whatever its state.
SetCoerceValue(b1, valArg) == toNumber_RJS(b1, valArg)

\* Mutation: set<T> tests the attached flag before the value coercion.
SetAttachedCheck_BeforeValueCoercion(b0, b1, b2) == b1.attached

\* if (!self->attached(runtime)) in set<T>: the flag of the buffer as it is
\* after the value coercion (b2), the last coercion of the call.
SetAttachedCheck(b0, b1, b2) == b2.attached

\* Mutation: set<T> stores before its bounds check (the bytes that fit).
SetBoundsFailure_StoresFirst(b2, v, T, byteOffset, pattern, littleEndian) ==
    viewSet(b2, v, T, byteOffset, pattern, littleEndian)

\* The buffer a set<T> leaves when its bounds check fails: the call returns
\* before self->set<T>.
SetBoundsFailure(b2, v, T, byteOffset, pattern, littleEndian) == b2

\* dataViewPrototypeSet<T, C>: the call's outcome.
SetOutcome(self, T, offArg, valArg, leArg) ==
    LET littleEndian == SetLittleEndian(leArg)
        call == [NoCall EXCEPT !.op = "set", !.self = self, !.type = T.name,
                               !.flag = leArg, !.le = littleEndian,
                               !.args = <<offArg, valArg>>]
    IN
    IF ~isDataView(self)
       THEN Fail(call, buf, "ReceiverTypeError", <<"receiver">>)
    ELSE
    LET v   == views[self]
        res == toIndex(buf, offArg)
        b1  == res.buf
        c1  == [call EXCEPT !.effs = <<offArg.eff>>]
    IN
    IF ~res.ok
       THEN Fail(c1, b1, res.err, <<"receiver", "toIndex">>)
    ELSE
    LET num == SetCoerceValue(b1, valArg)
        b2  == num.buf
        c2  == [c1 EXCEPT !.effs = <<offArg.eff, valArg.eff>>, !.off = res.n]
    IN
    IF ~num.ok
       THEN Fail(c2, b2, num.err, <<"receiver", "toIndex", "toNumber">>)
    ELSE
    LET value  == toDestType(T, num.n)
        status == AccessError(SetAttachedCheck(buf, b1, b2), OutOfBounds(v, T, res.n))
    IN
    IF status = "DetachedBufferError"
       THEN Fail(c2, b2, status, <<"receiver", "toIndex", "toNumber", "attached">>)
    ELSE IF status = "OutOfBoundsError"
       THEN Fail(c2, SetBoundsFailure(b2, v, T, res.n, value, littleEndian), status,
                 <<"receiver", "toIndex", "toNumber", "attached", "bounds">>)
    ELSE [buf |-> viewSet(b2, v, T, res.n, value, littleEndian),
          last |-> [c2 EXCEPT !.status = "ok",
                              !.trace = <<"receiver", "toIndex", "toNumber",
                                          "attached", "bounds", "write">>,
                              !.touched = Touched(v, T, res.n),
                              !.live = b2.attached,
                              !.bufSize = b2.size,
                              !.result = value]]

dataViewPrototypeSet(self, T, offArg, valArg, leArg) ==
    LET out == SetOutcome(self, T, offArg, valArg, leArg) IN
    /\ out.last.status = "ok" => Len(views) + stores < MaxOps
    /\ buf' = out.buf
    /\ last' = out.last
    /\ stores' = IF out.last.status = "ok" THEN stores + 1 ELSE stores
    /\ UNCHANGED views

(* ----------------------------- constructor ----------------------------- *)

\* Mutation: the offset is not checked before the length is coerced.
OffsetRangeError_Deferred(offset, bufferByteLength) == FALSE

\* 7. If offset > bufferByteLength, throw a RangeError exception.
OffsetRangeError(offset, bufferByteLength) == offset > bufferByteLength

\* Mutation: the length of the view is not checked against the buffer.
LengthRangeError_Unchecked(offset, viewByteLength, bufferByteLength) == FALSE

\* 9b. If offset + viewByteLength > bufferByteLength, throw a RangeError
\* exception.  bufferByteLength is the local read before the length
\* coercion.
LengthRangeError(offset, viewByteLength, bufferByteLength) ==
    offset + viewByteLength > bufferByteLength

\* dataViewConstructor: the call's outcome; view is the view stored by
\* setBuffer, or <<>> when the call fails.  The record's type says whether
\* the buffer argument is a JSArrayBuffer.
CtorOutcome(newTarget, isBuffer, offArg, lenArg) ==
    LET call == [NoCall EXCEPT !.op = "ctor", !.args = <<offArg, lenArg>>,
                               !.type = IF isBuffer THEN "ArrayBuffer" ELSE "Object"]
        NoView(o) == [buf |-> o.buf, last |-> o.last, view |-> <<>>]
    IN
    IF ~newTarget
       THEN NoView(Fail(call, buf, "CallTypeError", <<"newTarget">>))
    ELSE IF ~isBuffer
       THEN NoView(Fail(call, buf, "ConstructionTypeError", <<"newTarget", "buffer">>))
    ELSE
    LET res    == toIndex(buf, offArg)
        b1     == res.buf
        c1     == [call EXCEPT !.effs = <<offArg.eff>>]
        \* auto bufferByteLength = buffer->size();
        bufferByteLength == b1.size
    IN
    IF ~res.ok
       THEN NoView(Fail(c1, b1, res.err, <<"newTarget", "buffer", "toIndex">>))
    ELSE
    LET offset == res.n
        c2     == [c1 EXCEPT !.off = offset, !.cached = bufferByteLength,
                             !.bufSize = b1.size]
    IN
    IF OffsetRangeError(offset, bufferByteLength)
       THEN NoView(Fail(c2, b1, "ConstructionRangeError",
                        <<"newTarget", "buffer", "toIndex", "offsetCheck">>))
    ELSE IF lenArg.k = "undef"
       THEN [buf |-> b1,
             last |-> [c2 EXCEPT !.status = "ok",
                                 !.len = bufferByteLength - offset,
                                 !.trace = <<"newTarget", "buffer", "toIndex",
                                             "offsetCheck", "setBuffer">>],
             view |-> <<[byteOffset |-> offset,
                         byteLength |-> bufferByteLength - offset]>>]
    ELSE
    LET res2 == toIndex(b1, lenArg)
        b2   == res2.buf
        c3   == [c2 EXCEPT !.effs = <<offArg.eff, lenArg.eff>>,
                           !.bufSize = b2.size]
    IN
    IF ~res2.ok
       THEN NoView(Fail(c3, b2, res2.err,
                        <<"newTarget", "buffer", "toIndex", "offsetCheck", "toIndex">>))
    ELSE
    LET viewByteLength == res2.n
        c4 == [c3 EXCEPT !.len = viewByteLength]
    IN
    IF LengthRangeError(offset, viewByteLength, bufferByteLength)
       THEN NoView(Fail(c4, b2, "ConstructionRangeError",
                        <<"newTarget", "buffer", "toIndex", "offsetCheck",
                          "toIndex", "lengthCheck">>))
    ELSE [buf |-> b2,
          last |-> [c4 EXCEPT !.status = "ok",
                              !.trace = <<"newTarget", "buffer", "toIndex", "offsetCheck",
                                          "toIndex", "lengthCheck", "setBuffer">>],
          view |-> <<[byteOffset |-> offset, byteLength |-> viewByteLength]>>]

dataViewConstructor(newTarget, isBuffer, offArg, lenArg) ==
    LET out == CtorOutcome(newTarget, isBuffer, offArg, lenArg) IN
    /\ out.view # <<>> => Len(views) < MaxViews /\ Len(views) + stores < MaxOps
    /\ buf' = out.buf
    /\ last' = [out.last EXCEPT !.self = IF out.view # <<>> THEN Len(views) + 1 ELSE 0]
    /\ views' = views \o out.view
    /\ UNCHANGED stores

(* ------------------------------ the buffer ----------------------------- *)

\* ArrayBuffer detached from outside any DataView call.
Detach ==
    /\ buf.attached
    /\ buf' = detach(buf)
    /\ last' = [NoCall EXCEPT !.op = "detach"]
    /\ UNCHANGED <<views, stores>>

\* The native call returns: its result is handed to the caller.
Return ==
    /\ last.op # "none"
    /\ last' = NoCall
    /\ UNCHANGED <<buf, views, stores>>

\* Calls are made one at a time (the runtime is single-threaded): the next
\* call starts when the last one has returned.
Idle == last.op = "none"

Next ==
    \/ /\ Idle
       /\ \E newTarget \in BOOLEAN, isBuffer \in BOOLEAN, o \in IndexArgs, l \in LengthArgs :
             dataViewConstructor(newTarget, isBuffer, o, l)
    \/ /\ Idle
       /\ \E self \in 0 .. Len(views), T \in TypedArrays, a \in IndexArgs, le \in BoolArgs :
             dataViewPrototypeGet(self, T, a, le)
    \/ /\ Idle
       /\ \E self \in 0 .. Len(views), T \in TypedArrays, a \in IndexArgs, x \in ValueArgs,
             le \in BoolArgs :
             dataViewPrototypeSet(self, T, a, x, le)
    \/ Idle /\ \E self \in 0 .. Len(views) : dataViewPrototypeBuffer(self)
    \/ Idle /\ \E self \in 0 .. Len(views) : dataViewPrototypeByteLength(self)
    \/ Idle /\ \E self \in 0 .. Len(views) : dataViewPrototypeByteOffset(self)
    \/ Idle /\ Detach
    \/ Return

Spec == Init /\ [][Next]_vars

(* ------------------------- the codec in detail ------------------------- *)

\* The numbers the codec is exercised with: the ends of every integer
\* type's range and their neighbours, 2^32 and beyond, and values all of
\* whose bytes differ (0x0102, 0x01020304, 0x81828384).
CodecValues ==
    { Number(v) : v \in {0, 1, -1, 127, 128, -128, -129, 255, 256, 258, 32767,
                         32768, -32768, -32769, 65535, 65536, 16909060} }
       \cup { [hi |-> 32767, lo |-> 65535], [hi |-> 32768, lo |-> 0],
               [hi |-> -32768, lo |-> 0], [hi |-> 65535, lo |-> 65535],
               [hi |-> 65536, lo |-> 0], [hi |-> 65536, lo |-> 1],
               [hi |-> 33154, lo |-> 33668] }

\* The floats stored: integers of small magnitude.
FloatValues == { Number(v) : v \in {0, 1, -2, 258} }

ValuesOf(T) == IF T.kind = "float" THEN FloatValues ELSE CodecValues

\* The offsets accessed: aligned, unaligned, and the second half of the view.
CodecOffsets == {0, 1, 4}

PlainIndex(i) == [k |-> "int", n |-> i, eff |-> "none"]
PlainValue(v) == [k |-> "num", n |-> v, eff |-> "none"]

\* The script: it constructs a view over the whole buffer or over all but
\* its first byte, stores one value through it, and reads at once, with any
\* type, offset and littleEndian argument.
CodecNext ==
    \/ /\ Idle
       /\ views = <<>>
       /\ \E o \in {0, 1} : dataViewConstructor(TRUE, TRUE, PlainIndex(o), Undefined)
    \/ /\ Idle
       /\ stores = 0
       /\ \E self \in 1 .. Len(views), T \in TypedArrays, o \in CodecOffsets,
             le \in FlagArgs :
             \E v \in ValuesOf(T) :
                dataViewPrototypeSet(self, T, PlainIndex(o), PlainValue(v), le)
    \/ /\ last.op = "set"
       /\ \E T \in TypedArrays, o \in CodecOffsets, le \in FlagArgs :
             dataViewPrototypeGet(last.self, T, PlainIndex(o), le)
    \/ Return

SpecCodec == Init /\ [][CodecNext]_vars

(* ------------------------------ properties ----------------------------- *)

Range(s) == {s[i] : i \in DOMAIN s}

SizeOfName(name) == (CHOOSE T \in TypedArrays : T.name = name).size

\* The argument coerces to an index / the index it coerces to.
IsValidIndex(a) == toIndex(buf, a).ok
IndexOf(a) == toIndex(buf, a).n

\* The buffer after the scripts of a call's coercions have run, in order.
RECURSIVE ApplyEffs(_, _)
ApplyEffs(b, effs) ==
    IF effs = <<>> THEN b ELSE ApplyEffs(RunEffect(b, Head(effs)), Tail(effs))

IsAccess(c) == c.op \in {"get", "set"}

\* Every coercion of an access completes: the offset is a valid index and,
\* for set<T>, the value's coercion does not throw.
CoercionsComplete(c) ==
    /\ IsValidIndex(c.args[1])
    /\ c.op = "set" => c.args[2].k = "num"

Coercions == {"toIndex", "toNumber"}

\* C1: a get<T>/set<T> never touches buffer bytes while the buffer is
\* detached, also when a coercion of that same call detaches it: a call one
\* of whose coercions detached the buffer touches nothing and fails, the
\* attached check comes after the last coercion, and no coercion runs
\* between the check and the access.
C1_NoAccessWhileDetached ==
    IsAccess(last) =>
        /\ last.touched # {} => last.live /\ last.status = "ok"
        /\ "detach" \in Range(last.effs) => last.touched = {} /\ last.status # "ok"
        /\ last.status = "ok" => "attached" \in Range(last.trace)
        /\ \A i, j \in DOMAIN last.trace :
              last.trace[i] = "attached" /\ j > i => last.trace[j] \notin Coercions

\* A get<T> whose offset coercion detached the buffer, at an offset that is
\* inside the view: it fails with DetachedBufferError.
C1_Witness ==
    /\ last.op = "get"
    /\ isDataView(last.self)
    /\ last.args[1].eff = "detach"
    /\ last.status = "DetachedBufferError"
    /\ last.off + SizeOfName(last.type) <= views[last.self].byteLength

\* C2: once the buffer is detached it stays detached, and from then on no
\* get<T>/set<T> on any view succeeds; with arguments whose coercions
\* complete, the call fails with DetachedBufferError.
C2_DetachIsPermanent ==
    [][ /\ ~buf.attached => ~buf'.attached
        /\ ~buf.attached /\ IsAccess(last') =>
              /\ last'.status # "ok"
              /\ isDataView(last'.self) /\ CoercionsComplete(last') =>
                    last'.status = "DetachedBufferError" ]_vars

\* Two views over the buffer, the buffer detached from outside, then a get
\* inside the second view's bounds: DetachedBufferError.
C2_Witness ==
    /\ Len(views) = 2
    /\ ~buf.attached
    /\ last.op = "get"
    /\ last.self = 2
    /\ last.effs = <<"none">>
    /\ last.status = "DetachedBufferError"
    /\ views[1].byteLength > 0
    /\ last.off + SizeOfName(last.type) <= views[2].byteLength

\* C3: on a view, with a valid index, coercions that complete and the
\* buffer attached, get<T>/set<T> succeeds exactly when
\* localOffset + sizeof(T) <= view.byteLength and fails with
\* OutOfBoundsError otherwise.
C3_BoundsExact ==
    IsAccess(last) /\ isDataView(last.self) /\ CoercionsComplete(last) /\ buf.attached =>
        /\ last.off = IndexOf(last.args[1])
        /\ last.status =
              IF IndexOf(last.args[1]) + SizeOfName(last.type) <= views[last.self].byteLength
                 THEN "ok" ELSE "OutOfBoundsError"

\* A Float64 read that ends on the last byte of its view.
C3_Witness ==
    /\ last.op = "get"
    /\ last.type = "Float64"
    /\ last.status = "ok"
    /\ isDataView(last.self)
    /\ last.off + 8 = views[last.self].byteLength

\* The bytes a successful set<T> stores, in buffer order.
StoredBytes(c) == InBufferOrder(c.result, c.le)

\* C4: a set<T> that fails stores nothing: the buffer after it is the
\* buffer before it, changed only by the scripts its coercions ran.  A
\* set<T> that succeeds stores all sizeof(T) bytes and changes no other.
C4_FailedSetStoresNothing ==
    [][ last'.op = "set" =>
          LET before == ApplyEffs(buf, last'.effs)
              T      == SizeOfName(last'.type)
              base   == views[last'.self].byteOffset + last'.off
          IN IF last'.status # "ok"
                THEN buf' = before /\ last'.touched = {} /\ stores' = stores
                ELSE /\ last'.touched = base .. (base + T - 1)
                     /\ \A i \in 1 .. Len(before.data) :
                           buf'.data[i] = IF (i - 1) \in last'.touched
                                             THEN StoredBytes(last')[i - base]
                                             ELSE before.data[i]
                     /\ Len(buf'.data) = Len(before.data) ]_vars

\* A set<T> that starts inside its view and runs past its end, after its
\* offset coercion has written to the buffer: OutOfBoundsError.
C4_Witness ==
    /\ last.op = "set"
    /\ last.status = "OutOfBoundsError"
    /\ last.effs[1] = "write"
    /\ buf.data[1] = 170
    /\ last.off < views[last.self].byteLength

\* How many times a step occurs in a trace.
Count(trace, step) == Cardinality({i \in DOMAIN trace : trace[i] = step})

\* C5: in set<T> the value is coerced after the offset and before the
\* attached and bounds checks: it is not coerced when the offset coercion
\* fails, and it is coerced, once, whenever the offset is valid, so in every
\* call that ends with DetachedBufferError or OutOfBoundsError.
C5_ValueCoercionOrder ==
    [][ last'.op = "set" /\ isDataView(last'.self) =>
          LET a1 == last'.args[1]
              a2 == last'.args[2]
          IN /\ ~IsValidIndex(a1) =>
                   /\ buf' = RunEffect(buf, a1.eff)
                   /\ Count(last'.trace, "toNumber") = 0
                   /\ last'.status \in {"IndexRangeError", "Thrown"}
             /\ IsValidIndex(a1) =>
                   /\ a2.k = "throw" => last'.status = "Thrown"
                   /\ Count(last'.trace, "toNumber") = 1
                   /\ buf'.attached = RunEffect(RunEffect(buf, a1.eff), a2.eff).attached
             /\ last'.status \in {"DetachedBufferError", "OutOfBoundsError"} =>
                   /\ IsValidIndex(a1) /\ a2.k = "num"
                   /\ buf' = RunEffect(RunEffect(buf, a1.eff), a2.eff)
                   /\ \E i, j, k \in DOMAIN last'.trace :
                         /\ i < j /\ j < k
                         /\ last'.trace[i] = "toIndex"
                         /\ last'.trace[j] = "toNumber"
                         /\ last'.trace[k] = "attached" ]_vars

\* A set<T> whose value coercion detached the buffer: the coercion ran, and
\* the call ends with DetachedBufferError.
C5_Witness ==
    /\ last.op = "set"
    /\ isDataView(last.self)
    /\ last.args[1].eff = "none"
    /\ last.args[2].eff = "detach"
    /\ last.status = "DetachedBufferError"
    /\ ~buf.attached

\* C6: get<T>/set<T> fail at the first step whose condition is violated,
\* in the order receiver, offset validation, attached, bounds: a receiver
\* that is no view gives ReceiverTypeError and runs no coercion; an offset
\* that is no index gives IndexRangeError also on a detached buffer; a
\* detached buffer gives DetachedBufferError also when the offset is out of
\* bounds; OutOfBoundsError is left for an attached buffer.
C6_FailsAtFirstViolatedStep ==
    [][ IsAccess(last') =>
          LET c  == last'
              a1 == c.args[1]
          IN /\ ~isDataView(c.self) =>
                   /\ c.status = "ReceiverTypeError"
                   /\ buf' = buf
                   /\ Range(c.trace) \cap Coercions = {}
             /\ isDataView(c.self) /\ a1.k \in {"int", "huge"} /\ ~IsValidIndex(a1) =>
                   c.status = "IndexRangeError"
             /\ isDataView(c.self) /\ CoercionsComplete(c) /\ ~buf'.attached =>
                   c.status = "DetachedBufferError"
             /\ c.status = "OutOfBoundsError" =>
                   /\ isDataView(c.self) /\ CoercionsComplete(c) /\ buf'.attached
                   /\ OutOfBounds(views[c.self], [size |-> SizeOfName(c.type)],
                                  IndexOf(a1)) ]_vars

\* A get<T> on a buffer detached before the call, at an offset that is also
\* out of the view's bounds: DetachedBufferError.
C6_Witness ==
    /\ last.op = "get"
    /\ isDataView(last.self)
    /\ last.effs = <<"none">>
    /\ ~buf.attached
    /\ last.off + SizeOfName(last.type) > views[last.self].byteLength
    /\ last.status = "DetachedBufferError"

IsCtor(c) == c.op = "ctor" /\ c.status # "CallTypeError"

\* C7: the constructor's check after the length coercion,
\* offset + viewLength > buffer.byteLength, is made against the buffer's
\* length as it is after that coercion (bufSize), whatever the coercion did
\* to the buffer.
C7_LengthCheckedAgainstCurrentLength ==
    IsCtor(last) /\ Count(last.trace, "toIndex") = 2 /\ IsValidIndex(last.args[2]) =>
        (last.status = "ConstructionRangeError") <=> (last.off + last.len > last.bufSize)

\* C8: over a buffer, with index arguments that are valid, construction
\* succeeds exactly when offset <= buffer.byteLength and the length is
\* undefined or offset + length <= buffer.byteLength, fails with
\* ConstructionRangeError otherwise, and the view stored has
\* byteOffset = offset, byteLength = length (buffer.byteLength - offset when
\* undefined), so byteOffset + byteLength <= buffer.byteLength when the
\* constructor returns.
C8_ConstructedViewWithinBuffer ==
    IsCtor(last) /\ last.type = "ArrayBuffer" /\ IsValidIndex(last.args[1])
                 /\ (last.args[2].k = "undef" \/ IsValidIndex(last.args[2])) =>
        LET offset == IndexOf(last.args[1])
            undef  == last.args[2].k = "undef"
            length == IF undef THEN buf.size - offset ELSE IndexOf(last.args[2])
            fits   == offset <= buf.size /\ (undef \/ offset + length <= buf.size)
        IN /\ last.status = IF fits THEN "ok" ELSE "ConstructionRangeError"
           /\ last.status = "ok" =>
                 /\ views[last.self] = [byteOffset |-> offset, byteLength |-> length]
                 /\ views[last.self].byteOffset + views[last.self].byteLength <= buf.size

\* C9: the constructor runs buffer-type check, offset coercion, offset
\* bounds check, length coercion, length bounds check, in this order: an
\* argument that is no buffer gives ConstructionTypeError and no coercion
\* runs; when the offset coercion fails or the offset is beyond the buffer
\* the length coercion does not run; the length coercion runs only after
\* the offset coercion has completed, and then it does run.
C9_ConstructionOrder ==
    [][ IsCtor(last') =>
          LET c  == last'
              a1 == c.args[1]
              a2 == c.args[2]
              b1 == RunEffect(buf, a1.eff)
          IN /\ c.type # "ArrayBuffer" =>
                   /\ c.status = "ConstructionTypeError"
                   /\ buf' = buf
                   /\ Count(c.trace, "toIndex") = 0
             /\ c.type = "ArrayBuffer" /\ (~IsValidIndex(a1) \/ IndexOf(a1) > b1.size) =>
                   /\ c.status = IF ~IsValidIndex(a1)
                                    THEN (IF a1.k = "throw" THEN "Thrown" ELSE "IndexRangeError")
                                    ELSE "ConstructionRangeError"
                   /\ buf' = b1
                   /\ Count(c.trace, "toIndex") = 1
                   /\ views' = views
             /\ c.type = "ArrayBuffer" /\ IsValidIndex(a1) /\ IndexOf(a1) <= b1.size
                                       /\ a2.k # "undef" =>
                   /\ buf' = RunEffect(b1, a2.eff)
                   /\ Count(c.trace, "toIndex") = 2
                   /\ a2.k = "throw" => c.status = "Thrown"
                   /\ a2.k \in {"int", "huge"} /\ ~IsValidIndex(a2) =>
                         c.status = "IndexRangeError" ]_vars

\* A construction whose offset is beyond the buffer and whose length
\* argument would detach the buffer when coerced: ConstructionRangeError,
\* and the buffer is still attached.
C9_Witness ==
    /\ IsCtor(last)
    /\ last.type = "ArrayBuffer"
    /\ last.args[1].k = "int" /\ last.args[1].n > BufLen
    /\ last.args[2].eff = "detach"
    /\ last.status = "ConstructionRangeError"
    /\ buf.attached

\* C10: constructing with offset = buffer.byteLength and no length succeeds
\* with a view of byteLength 0, and on a view of byteLength 0 every
\* get<T>/set<T> with a valid offset, coercions that complete and an
\* attached buffer fails with OutOfBoundsError.
C10_EmptyViewAtEnd ==
    /\ IsCtor(last) /\ last.type = "ArrayBuffer" /\ IsValidIndex(last.args[1])
                    /\ last.args[2].k = "undef" /\ IndexOf(last.args[1]) = buf.size =>
          /\ last.status = "ok"
          /\ views[last.self] = [byteOffset |-> buf.size, byteLength |-> 0]
    /\ IsAccess(last) /\ isDataView(last.self) /\ CoercionsComplete(last)
                      /\ buf.attached /\ views[last.self].byteLength = 0 =>
          last.status = "OutOfBoundsError"

\* A set<T> at offset 0 of the empty view at the end of the attached buffer.
C10_Witness ==
    /\ last.op = "set"
    /\ isDataView(last.self)
    /\ views[last.self] = [byteOffset |-> BufLen, byteLength |-> 0]
    /\ buf.attached
    /\ last.off = 0
    /\ last.status = "OutOfBoundsError"

(* ------------------------ UTF-16 to UTF-8 ------------------------------ *)

\* How many 16-bit code units a transcoded sequence has at most.
MaxUnits == 3

\* The code units sequences are made of: ASCII ('a', 'b', NUL, 0x7F), the
\* ends of the two-byte and three-byte ranges, U+0301 and U+2603, the ends
\* of the leading and trailing surrogate ranges with the units next to
\* them, and the two halves of U+1F639 (0xD83D, 0xDE39).
Units == {0, 97, 98, 127, 128, 769, 2047, 2048, 9731, 55295, 55296, 55357,
          56319, 56320, 56889, 57343, 57344, 65535}

RECURSIVE SeqsUpTo(_, _)
SeqsUpTo(S, n) ==
    IF n = 0 THEN {<<>>}
    ELSE LET shorter == SeqsUpTo(S, n - 1)
         IN shorter \cup {Append(s, x) : s \in {t \in shorter : Len(t) = n - 1}, x \in S}

isHighSurrogate(c) == c >= 55296 /\ c <= 56319
isLowSurrogate(c) == c >= 56320 /\ c <= 57343

\* Mutation: the pair decoded without the 0x10000 of the supplementary
\* planes.
decodeSurrogatePair_NoOffset(lead, trail) == (lead - 55296) * 1024 + (trail - 56320)

\* decodeSurrogatePair: 0x10000 + (lead - 0xD800) * 0x400 + (trail - 0xDC00).
decodeSurrogatePair(lead, trail) == 65536 + (lead - 55296) * 1024 + (trail - 56320)

\* encodeUTF8: the bytes of one code point; a surrogate value is encoded
\* like any other value of the three-byte range.
encodeUTF8(cp) ==
    CASE cp <= 127   -> <<cp>>
      [] cp <= 2047  -> <<192 + (cp \div 64), 128 + (cp % 64)>>
      [] cp <= 65535 -> <<224 + (cp \div 4096), 128 + ((cp \div 64) % 64),
                          128 + (cp % 64)>>
      [] OTHER       -> <<240 + (cp \div 262144), 128 + ((cp \div 4096) % 64),
                          128 + ((cp \div 64) % 64), 128 + (cp % 64)>>

\* Mutation: the transcoder in exact mode as a transcoder that combines a
\* leading surrogate and the trailing surrogate after it into one code
\* point.
RECURSIVE convertUTF16ToUTF8WithSingleSurrogates_Pairs(_, _)
convertUTF16ToUTF8WithSingleSurrogates_Pairs(out, input) ==
    IF input = <<>> THEN out
    ELSE IF isHighSurrogate(input[1]) /\ Len(input) > 1 /\ isLowSurrogate(input[2])
       THEN convertUTF16ToUTF8WithSingleSurrogates_Pairs(
               out \o encodeUTF8(decodeSurrogatePair(input[1], input[2])),
               Tail(Tail(input)))
       ELSE convertUTF16ToUTF8WithSingleSurrogates_Pairs(
               out \o encodeUTF8(input[1]), Tail(input))

\* Mutation: the transcoder in exact mode writing U+FFFD for a surrogate.
RECURSIVE convertUTF16ToUTF8WithSingleSurrogates_Replaces(_, _)
convertUTF16ToUTF8WithSingleSurrogates_Replaces(out, input) ==
    IF input = <<>> THEN out
    ELSE convertUTF16ToUTF8WithSingleSurrogates_Replaces(
            out \o encodeUTF8(IF isHighSurrogate(input[1]) \/ isLowSurrogate(input[1])
                                 THEN 65533 ELSE input[1]),
            Tail(input))

\* convertUTF16ToUTF8WithSingleSurrogates(out, input): every code unit is
\* encoded by itself, a surrogate as the three bytes of its own value; the
\* bytes are appended to out.
RECURSIVE convertUTF16ToUTF8WithSingleSurrogates(_, _)
convertUTF16ToUTF8WithSingleSurrogates(out, input) ==
    IF input = <<>> THEN out
    ELSE convertUTF16ToUTF8WithSingleSurrogates(out \o encodeUTF8(input[1]), Tail(input))

\* Mutation: an unpaired leading surrogate also consumes the unit after it.
RECURSIVE convertUTF16ToUTF8WithReplacements_LeadConsumesNext(_, _)
convertUTF16ToUTF8WithReplacements_LeadConsumesNext(out, input) ==
    IF input = <<>> THEN out
    ELSE LET c == input[1] IN
         IF isLowSurrogate(c)
            THEN convertUTF16ToUTF8WithReplacements_LeadConsumesNext(
                    out \o encodeUTF8(65533), Tail(input))
         ELSE IF isHighSurrogate(c)
            THEN IF Len(input) = 1
                    THEN out \o encodeUTF8(65533)
                    ELSE convertUTF16ToUTF8WithReplacements_LeadConsumesNext(
                            out \o encodeUTF8(IF isLowSurrogate(input[2])
                                                 THEN decodeSurrogatePair(c, input[2])
                                                 ELSE 65533),
                            Tail(Tail(input)))
         ELSE convertUTF16ToUTF8WithReplacements_LeadConsumesNext(
                 out \o encodeUTF8(c), Tail(input))

\* convertUTF16ToUTF8WithReplacements(out, input): one pass, left to right;
\* a leading surrogate with a trailing surrogate right after it is decoded
\* as one code point and both units are consumed; any other surrogate is
\* one U+FFFD and one unit is consumed.
RECURSIVE convertUTF16ToUTF8WithReplacements(_, _)
convertUTF16ToUTF8WithReplacements(out, input) ==
    IF input = <<>> THEN out
    ELSE LET c == input[1] IN
         IF isLowSurrogate(c)
            THEN convertUTF16ToUTF8WithReplacements(out \o encodeUTF8(65533), Tail(input))
         ELSE IF isHighSurrogate(c)
            THEN IF Len(input) = 1 \/ ~isLowSurrogate(input[2])
                    THEN convertUTF16ToUTF8WithReplacements(
                            out \o encodeUTF8(65533), Tail(input))
                    ELSE convertUTF16ToUTF8WithReplacements(
                            out \o encodeUTF8(decodeSurrogatePair(c, input[2])),
                            Tail(Tail(input)))
         ELSE convertUTF16ToUTF8WithReplacements(out \o encodeUTF8(c), Tail(input))

\* A sequence of code units and the strings the two transcoders have filled
\* from it (done: which of them has run).
Utf16(input) ==
    [op |-> "utf16", input |-> input, exact |-> <<>>, replaced |-> <<>>, done |-> {}]

InitUTF8 ==
    /\ buf = [attached |-> TRUE, size |-> BufLen, data |-> [i \in 1 .. BufLen |-> 0]]
    /\ views = <<>>
    /\ stores = 0
    /\ last \in {Utf16(input) : input \in SeqsUpTo(Units, MaxUnits)}

\* std::string out; convertUTF16ToUTF8WithSingleSurrogates(out, cs);
WithSingleSurrogates ==
    /\ last.op = "utf16"
    /\ "exact" \notin last.done
    /\ last' = [last EXCEPT
                   !.exact = convertUTF16ToUTF8WithSingleSurrogates(<<>>, last.input),
                   !.done = @ \cup {"exact"}]
    /\ UNCHANGED <<buf, views, stores>>

\* std::string out; convertUTF16ToUTF8WithReplacements(out, cs);
WithReplacements ==
    /\ last.op = "utf16"
    /\ "replaced" \notin last.done
    /\ last' = [last EXCEPT
                   !.replaced = convertUTF16ToUTF8WithReplacements(<<>>, last.input),
                   !.done = @ \cup {"replaced"}]
    /\ UNCHANGED <<buf, views, stores>>

NextUTF8 == WithSingleSurrogates \/ WithReplacements

SpecUTF8 == InitUTF8 /\ [][NextUTF8]_vars

(* ----------------------------- isAllASCII ------------------------------ *)

\* How many bytes an array of boundary bytes has at most.
MaxBytes == 8

\* sizeof(uint32_t): the bytes read at once once the cursor is aligned.
ChunkSize == 4

\* The arrays of StringTest.IsAllASCIITest.
ascii == <<32, 23, 18>>
notAscii == <<234, 1, 0>>
asciiArr == <<1, 3, 14, 54, 19, 124, 13, 43, 127, 19, 0>>
partialAsciiArr == <<1, 3, 14, 54, 219, 124, 13, 43, 127, 19>>
noAsciiArr == <<129, 153, 175, 201, 219, 231, 214, 255, 255, 130>>

\* The arrays classified: those of the test, and every array of up to
\* MaxBytes bytes each of which is 0x7F or 0x80.
ByteArrays ==
    {ascii, notAscii, asciiArr, partialAsciiArr, noAsciiArr}
       \cup SeqsUpTo({127, 128}, MaxBytes)

\* a | b on bytes.
RECURSIVE BitOr(_, _)
BitOr(a, b) ==
    IF a = 0 THEN b
    ELSE IF b = 0 THEN a
    ELSE (IF a % 2 = 1 \/ b % 2 = 1 THEN 1 ELSE 0) + 2 * BitOr(a \div 2, b \div 2)

\* mask & 0x80 is not zero.
HighBit(mask) == (mask \div 128) % 2 = 1

\* mask |= *cursor++, for the n bytes at index cursor (0-based) and after.
RECURSIVE OrBytes(_, _, _)
OrBytes(mem, cursor, n) ==
    IF n = 0 THEN 0 ELSE BitOr(mem[cursor + 1], OrBytes(mem, cursor + 1, n - 1))

\* Mutation: the chunk is tested with the mask of one byte, 0x80.
ChunkHasHighBit_OneByteMask(mem, cursor) == HighBit(mem[cursor + 1])

\* val & 0x80808080 is not zero, val the ChunkSize bytes at index cursor.
ChunkHasHighBit(mem, cursor) ==
    \E k \in 1 .. ChunkSize : HighBit(mem[cursor + k])

\* The loop over aligned chunks: FALSE when a chunk has a byte above 0x7F,
\* else the tail, byte by byte.
RECURSIVE ScanChunks(_, _, _)
ScanChunks(mem, cursor, len) ==
    IF len >= ChunkSize
       THEN IF ChunkHasHighBit(mem, cursor) THEN FALSE
            ELSE ScanChunks(mem, cursor + ChunkSize, len - ChunkSize)
       ELSE ~HighBit(OrBytes(mem, cursor, len))

\* isAllASCII(start, end) over the bytes mem[start .. end), the array being
\* placed at an address congruent to base modulo ChunkSize: a range of at
\* least ChunkSize bytes is scanned byte by byte up to the next aligned
\* address, then by chunks; the rest byte by byte.
isAllASCII(mem, start, end, base) ==
    LET len == end - start IN
    IF len >= ChunkSize
       THEN LET head == (ChunkSize - ((base + start) % ChunkSize)) % ChunkSize IN
            IF HighBit(OrBytes(mem, start, head)) THEN FALSE
            ELSE ScanChunks(mem, start + head, len - head)
       ELSE ~HighBit(OrBytes(mem, start, len))

InitASCII ==
    /\ buf = [attached |-> TRUE, size |-> BufLen, data |-> [i \in 1 .. BufLen |-> 0]]
    /\ views = <<>>
    /\ stores = 0
    /\ last \in { [op |-> "ranges", mem |-> mem, start |-> 0, end |-> 0,
                   base |-> base, result |-> TRUE] :
                     mem \in ByteArrays, base \in 0 .. ChunkSize - 1 }

\* isAllASCII(&arr[start], &arr[end]), for every start <= end.
IsAllASCIITest ==
    /\ last.op = "ranges"
    /\ \E start \in 0 .. Len(last.mem) : \E end \in start .. Len(last.mem) :
          last' = [last EXCEPT !.op = "isAllASCII", !.start = start, !.end = end,
                               !.result = isAllASCII(last.mem, start, end, last.base)]
    /\ UNCHANGED <<buf, views, stores>>

NextASCII == IsAllASCIITest

SpecASCII == InitASCII /\ [][NextASCII]_vars

TypeOfName(name) == CHOOSE T \in TypedArrays : T.name = name

IsInteger(T) == T.kind \in {"int", "uint"}

\* The number is a value of the integer type T.
Representable(T, v) == NumLeq(MinOf(T), v) /\ NumLeq(v, MaxOf(T))

\* The littleEndian argument of the call is true (it is not false and not
\* absent).
LittleFlag(c) == c.flag = "true"

\* A get<T> that follows a set<T> at once, on the same view, with the same
\* type, offset and byte order.
ReadsBack(c, d) ==
    /\ c.op = "set" /\ c.status = "ok"
    /\ d.op = "get" /\ d.status = "ok"
    /\ d.self = c.self /\ d.type = c.type /\ d.off = c.off
    /\ LittleFlag(d) = LittleFlag(c)

\* C11: round trip: for every integer type T, every value v of T, every
\* offset inside the view and both byte orders, a successful
\* set<T>(o, v, le) followed at once by get<T>(o, le) returns v.
C11_RoundTrip ==
    [][ ( /\ ReadsBack(last, last')
          /\ IsInteger(TypeOfName(last.type))
          /\ Representable(TypeOfName(last.type), last.args[2].n) )
        => last'.result = last.args[2].n ]_vars

\* A big-endian getInt32 at offset 1 that returns -129 from the bytes the
\* one store of the behaviour left there.
C11_Witness ==
    /\ last.op = "get"
    /\ last.status = "ok"
    /\ last.type = "Int32"
    /\ last.flag = "false"
    /\ last.off = 1
    /\ last.result = Number(-129)
    /\ stores = 1

\* The bytes an access covers, lowest address first.
Region(c) ==
    [i \in 1 .. SizeOfName(c.type) |-> buf.data[views[c.self].byteOffset + c.off + i]]

\* The least and the most significant byte of a number as a value of n
\* bytes.
LowByte(v) == v.lo % 256
HighByte(v, n) ==
    CASE n = 1 -> v.lo % 256
      [] n = 2 -> v.lo \div 256
      [] OTHER -> (v.hi \div 256) % 256

\* C12: byte order.  With littleEndian true the least significant byte of
\* the value is at the lowest address of the bytes accessed and the most
\* significant at the highest; with littleEndian false or absent it is the
\* other way round.  The bytes a set<T> stores with littleEndian true are
\* the reverse of those it stores with false or absent.  Over the bytes
\* 0x01, 0x02, getUint16 returns 0x0201 with true and 0x0102 with false or
\* absent.  Single-byte types give the same whatever the argument.
C12_ByteOrder ==
    IsAccess(last) /\ last.status = "ok" =>
        LET T      == TypeOfName(last.type)
            n      == sizeof(T)
            lowest == IF LittleFlag(last) THEN 1 ELSE n
            highest == IF LittleFlag(last) THEN n ELSE 1
            v      == IF last.op = "get" THEN last.result ELSE last.args[2].n
        IN /\ IsInteger(T) =>
                 /\ Region(last)[lowest] = LowByte(v)
                 /\ Region(last)[highest] = HighByte(v, n)
           /\ last.op = "set" =>
                 Region(last) = IF LittleFlag(last) THEN last.result
                                                   ELSE Reverse(last.result)
           /\ (last.op = "get" /\ ~IsInteger(T)) =>
                 last.result.bits = IF LittleFlag(last) THEN Region(last)
                                                        ELSE Reverse(Region(last))
           /\ (last.op = "get" /\ last.type = "Uint16" /\ Region(last) = <<1, 2>>) =>
                 last.result = Number(IF LittleFlag(last) THEN 513 ELSE 258)
           /\ (n = 1 /\ last.op = "get") => last.result.lo % 256 = Region(last)[1]

\* getUint16(0) with no littleEndian argument over the bytes 0x01, 0x02:
\* 0x0102.
C12_Witness ==
    /\ last.op = "get"
    /\ last.status = "ok"
    /\ last.type = "Uint16"
    /\ last.off = 0
    /\ last.flag = "undefined"
    /\ Region(last) = <<1, 2>>
    /\ last.result = Number(258)

\* v and w are congruent modulo 2^(8n), n the size of an integer type.
Congruent(v, w, n) ==
    CASE n = 1 -> (v.lo - w.lo) % 256 = 0
      [] n = 2 -> v.lo = w.lo
      [] OTHER -> v.lo = w.lo /\ (v.hi - w.hi) % 65536 = 0

\* C13: an integer set<T> wraps and does not saturate: whatever integer v
\* is stored, the get<T> that follows in the same byte order returns the value of T congruent to v
\* modulo 2^w, w the width of T (setUint8 of 256 reads back 0, setInt8 of
\* 128 reads back -128); no clamped type is among the registered methods.
C13_IntegerSetWraps ==
    [][ ( ReadsBack(last, last') /\ IsInteger(TypeOfName(last.type)) )
        => LET T == TypeOfName(last.type)
               v == last.args[2].n
               r == last'.result
           IN /\ Representable(T, r)
              /\ Congruent(r, v, sizeof(T))
              /\ (T.name = "Uint8" /\ v = Number(256)) => r = Number(0)
              /\ (T.name = "Int8" /\ v = Number(128)) => r = Number(-128)
              /\ \A U \in TypedArrays : U.name # "Uint8Clamped" ]_vars

\* setInt8 of 128 has stored the byte 0x80.
C13_Witness ==
    /\ last.op = "set"
    /\ last.status = "ok"
    /\ last.type = "Int8"
    /\ last.args[2].n = Number(128)
    /\ Region(last) = <<128>>

IsSurrogate(c) == isHighSurrogate(c) \/ isLowSurrogate(c)

\* The unit at i is a lone surrogate: a leading surrogate with no trailing
\* surrogate right after it, or a trailing surrogate with no leading
\* surrogate right before it.
IsLone(input, i) ==
    /\ IsSurrogate(input[i])
    /\ ~(isHighSurrogate(input[i]) /\ i < Len(input) /\ isLowSurrogate(input[i + 1]))
    /\ ~(isLowSurrogate(input[i]) /\ i > 1 /\ isHighSurrogate(input[i - 1]))

HasLone(input) == \E i \in DOMAIN input : IsLone(input, i)

\* The unit at i is the leading surrogate of a pair.
IsPair(input, i) ==
    i < Len(input) /\ isHighSurrogate(input[i]) /\ isLowSurrogate(input[i + 1])

Ran(mode) == last.op = "utf16" /\ mode \in last.done

\* The four-byte sequence of a code point of the supplementary planes.
FourBytes(cp) ==
    <<240 + (cp \div 262144), 128 + ((cp \div 4096) % 64),
      128 + ((cp \div 64) % 64), 128 + (cp % 64)>>

\* The three bytes 0xE0 | (u >> 12), 0x80 | ((u >> 6) & 0x3F), 0x80 | (u & 0x3F).
ThreeBytes(u) == <<224 + (u \div 4096), 128 + ((u \div 64) % 64), 128 + (u % 64)>>

\* C14 as claimed: on every sequence with no lone surrogate the two
\* transcoders produce the same bytes, and in both a leading surrogate with
\* the trailing surrogate after it becomes one four-byte sequence, so
\* 0xD83D 0xDE39 gives F0 9F 98 B9 in exact mode as in replacement mode.
C14_ModesAgreeOnWellFormed ==
    Ran("exact") /\ Ran("replaced") /\ ~HasLone(last.input) =>
        /\ last.exact = last.replaced
        /\ last.input = <<55357, 56889>> => last.exact = <<240, 159, 152, 185>>

\* C14, amended: on every sequence with no surrogate at all the two
\* transcoders produce the same bytes; in replacement mode a leading
\* surrogate with the trailing surrogate after it is consumed as one pair
\* and becomes the one four-byte sequence of
\* 0x10000 + (lead - 0xD800) * 0x400 + (trail - 0xDC00), the units before
\* and after the pair being transcoded as they are without it, so
\* 0xD83D 0xDE39 gives F0 9F 98 B9 in replacement mode.
C14_ModesAgreeWithoutSurrogates ==
    /\ ( Ran("exact") /\ Ran("replaced")
         /\ \A i \in DOMAIN last.input : ~IsSurrogate(last.input[i]) )
       => last.exact = last.replaced
    /\ Ran("replaced") =>
          /\ \A i \in DOMAIN last.input : IsPair(last.input, i) =>
                last.replaced =
                   convertUTF16ToUTF8WithReplacements(<<>>, SubSeq(last.input, 1, i - 1))
                   \o FourBytes(65536 + (last.input[i] - 55296) * 1024
                                      + (last.input[i + 1] - 56320))
                   \o convertUTF16ToUTF8WithReplacements(
                         <<>>, SubSeq(last.input, i + 2, Len(last.input)))
          /\ last.input = <<55357, 56889>> => last.replaced = <<240, 159, 152, 185>>

\* 'a', U+0301, U+2603 transcoded by both: the same six bytes.
C14_Witness ==
    /\ Ran("exact") /\ Ran("replaced")
    /\ last.input = <<97, 769, 9731>>
    /\ last.exact = <<97, 204, 129, 226, 152, 131>>
    /\ last.replaced = last.exact

\* The bytes of one unit encoded by itself.
UnitBytes(u) ==
    CASE u <= 127  -> <<u>>
      [] u <= 2047 -> <<192 + (u \div 64), 128 + (u % 64)>>
      [] OTHER     -> ThreeBytes(u)

RECURSIVE EachUnitAlone(_)
EachUnitAlone(input) ==
    IF input = <<>> THEN <<>> ELSE UnitBytes(Head(input)) \o EachUnitAlone(Tail(input))

\* C15: convertUTF16ToUTF8WithSingleSurrogates encodes every unit by itself:
\* its output is the concatenation of the encodings of the single units, a
\* surrogate giving the three bytes of its own value also when the matching
\* surrogate is next to it, so 0xD83D 0xDE39 gives ED A0 BD ED B8 B9.
C15_ExactEncodesEachUnitAlone ==
    Ran("exact") =>
        /\ last.exact = EachUnitAlone(last.input)
        /\ last.input = <<55357, 56889>> =>
              last.exact = <<237, 160, 189, 237, 184, 185>>

\* The two halves of U+1F639 transcoded in exact mode: six bytes.
C15_Witness ==
    /\ Ran("exact")
    /\ last.input = <<55357, 56889>>
    /\ last.exact = <<237, 160, 189, 237, 184, 185>>

\* C16: in exact mode a lone surrogate u, at any position, consumes one
\* unit and gives the three bytes 0xE0 | (u >> 12), 0x80 | ((u >> 6) & 0x3F),
\* 0x80 | (u & 0x3F); the units before it and after it are transcoded as
\* they are without it.
C16_ExactLoneSurrogate ==
    Ran("exact") =>
        /\ \A i \in DOMAIN last.input : IsLone(last.input, i) =>
              last.exact =
                 convertUTF16ToUTF8WithSingleSurrogates(<<>>, SubSeq(last.input, 1, i - 1))
                 \o ThreeBytes(last.input[i])
                 \o convertUTF16ToUTF8WithSingleSurrogates(
                       <<>>, SubSeq(last.input, i + 1, Len(last.input)))
        /\ last.input = <<55357>> => last.exact = <<237, 160, 189>>
        /\ last.input = <<97, 55357, 98>> => last.exact = <<97, 237, 160, 189, 98>>

\* 'a', a lone 0xD83D, 'b' transcoded in exact mode.
C16_Witness ==
    /\ Ran("exact")
    /\ last.input = <<97, 55357, 98>>
    /\ last.exact = <<97, 237, 160, 189, 98>>

\* k copies of EF BF BD.
RECURSIVE Replacements(_)
Replacements(k) == IF k = 0 THEN <<>> ELSE <<239, 191, 189>> \o Replacements(k - 1)

\* C17: in replacement mode a lone surrogate, leading or trailing, consumes
\* one unit and gives one EF BF BD; the units before it and after it are
\* transcoded as they are without it (a leading surrogate before a unit that
\* is no trailing surrogate does not consume that unit), and a sequence of
\* k lone surrogates gives k replacements.
C17_ReplacementLoneSurrogate ==
    Ran("replaced") =>
        /\ \A i \in DOMAIN last.input : IsLone(last.input, i) =>
              last.replaced =
                 convertUTF16ToUTF8WithReplacements(<<>>, SubSeq(last.input, 1, i - 1))
                 \o <<239, 191, 189>>
                 \o convertUTF16ToUTF8WithReplacements(
                       <<>>, SubSeq(last.input, i + 1, Len(last.input)))
        /\ (\A i \in DOMAIN last.input : IsLone(last.input, i)) =>
              last.replaced = Replacements(Len(last.input))

\* A trailing surrogate, a leading surrogate, 'a': two replacements and 'a'.
C17_Witness ==
    /\ Ran("replaced")
    /\ last.input = <<56889, 55357, 97>>
    /\ last.replaced = <<239, 191, 189, 239, 191, 189, 97>>

\* C18: isAllASCII over a half-open range is true exactly when every byte
\* of the range is <= 0x7F (true for the empty range); the scan by chunks
\* gives what the scan byte by byte gives, for every start, every length
\* and every alignment of the array.
C18_IsAllASCIIMatchesByteScan ==
    last.op = "isAllASCII" =>
        last.result = \A i \in (last.start + 1) .. last.end : last.mem[i] <= 127

\* A range of partialAsciiArr whose byte 219 is the second byte of an
\* aligned chunk: not ASCII.
C18_Witness ==
    /\ last.op = "isAllASCII"
    /\ last.mem = partialAsciiArr
    /\ last.base = 1
    /\ last.start = 1
    /\ last.end = 10
    /\ last.result = FALSE

\* C19: every byte a successful get<T>/set<T> touches is at a buffer index
\* in [byteOffset + localOffset, byteOffset + localOffset + sizeof(T)),
\* which lies inside the view and inside the buffer, and the buffer is
\* attached when the byte is touched; a view that reaches beyond the buffer
\* (one constructed while its length coercion detached the buffer) exists
\* only over a detached buffer, on which no access succeeds; the index of a
\* call that reaches the bounds check is no number above 2^53 - 1.
C19_TouchedBytesInBounds ==
    /\ \A i \in DOMAIN views :
          views[i].byteOffset + views[i].byteLength > buf.size => ~buf.attached
    /\ (IsAccess(last) /\ "attached" \in Range(last.trace)) => last.args[1].k = "int"
    /\ (IsAccess(last) /\ last.status = "ok") =>
          LET v    == views[last.self]
              base == v.byteOffset + last.off
          IN /\ last.touched = base .. (base + SizeOfName(last.type) - 1)
             /\ last.touched \subseteq v.byteOffset .. (v.byteOffset + v.byteLength - 1)
             /\ last.touched \subseteq 0 .. (last.bufSize - 1)
             /\ last.touched \subseteq 0 .. (buf.size - 1)
             /\ last.live /\ buf.attached

\* A set<T> that stores up to the last byte of the buffer through a view
\* that does not start at the buffer's first byte.
C19_Witness ==
    /\ last.op = "set"
    /\ last.status = "ok"
    /\ views[last.self].byteOffset > 0
    /\ (BufLen - 1) \in last.touched

IsAccessor(c) == c.op \in {"buffer", "byteLength", "byteOffset"}

\* C20: the byteOffset and byteLength of a view are those its constructor
\* stored and no call and no detach changes them; the three accessors test
\* the receiver only: on a view they succeed, also over a detached buffer,
\* and return the buffer, the byteLength and the byteOffset the view was
\* constructed with, changing nothing; on a receiver that is no view they
\* fail with ReceiverTypeError.
C20_ViewFieldsFixed ==
    [][ /\ \A i \in DOMAIN views : i \in DOMAIN views' /\ views'[i] = views[i]
        /\ (IsCtor(last') /\ last'.status = "ok") =>
              /\ Len(views') = Len(views) + 1
              /\ views'[last'.self] = [byteOffset |-> last'.off, byteLength |-> last'.len]
        /\ ~IsCtor(last') => views' = views
        /\ IsAccessor(last') =>
              /\ buf' = buf
              /\ last'.status = IF isDataView(last'.self) THEN "ok" ELSE "ReceiverTypeError"
              /\ last'.status = "ok" =>
                    last'.result =
                       CASE last'.op = "byteLength" -> <<views[last'.self].byteLength>>
                         [] last'.op = "byteOffset" -> <<views[last'.self].byteOffset>>
                         [] OTHER                   -> <<"ArrayBuffer">> ]_vars

\* byteOffset read from a view that starts inside the buffer, after the
\* buffer has been detached.
C20_Witness ==
    /\ last.op = "byteOffset"
    /\ last.status = "ok"
    /\ ~buf.attached
    /\ last.result = <<views[last.self].byteOffset>>
    /\ views[last.self].byteOffset > 0

====
